---- MODULE Spec2Model ----
(***************************************************************************)
(* The queued multi-file transfer orchestrator of src/cli.c: cli_state_t,  *)
(* the entry points cli_upload_file / cli_download_file, the Bridge        *)
(* callbacks get_bucket_id_callback / list_files_callback, the queue       *)
(* manager queue_next_cli_cmd, the executors upload_file / download_file,  *)
(* their completion callbacks and their SIGINT handlers.                   *)
(*                                                                         *)
(* C strings are sequences of one-character strings; a NULL char* is the   *)
(* value NULL below.  The Bridge library, the file system and the user at  *)
(* the console are the environment: their answers are drawn with \E.       *)
(***************************************************************************)
EXTENDS Integers, Sequences, FiniteSets, TLC

\* ------------------------------------------------------------------ bounds
MaxFiles   == 3   \* entries of a remote listing / lines of an upload list
MaxBuckets == 2   \* buckets returned by listBuckets
MaxSigint  == 1   \* interrupt signals delivered during one invocation
MaxInputs  == 2   \* console lines read by one overwrite prompt
MaxRest    == 4   \* characters of a URI argument after the scheme
MaxJunk    == 2   \* characters of a URI argument before the scheme
MaxEntries == 4   \* directory entries under the root of an upload, at any depth

\* --------------------------------------------------------- program constants
CLI_NO_SUCH_FILE_OR_DIR == 0
CLI_VALID_REGULAR_FILE  == 1
CLI_VALID_DIR           == 2
CLI_UNKNOWN_FILE_ATTR   == 3
CLI_UPLOAD_FILE_LOG_ERR == 4

\* ------------------------------------------------------------------ strings
NULL == <<"NULL">>

Scheme == <<"s", "t", "o", "r", "j", ":", "/", "/">>

IsSubAt(str, sub, k) ==
    /\ k + Len(sub) <= Len(str)
    /\ \A j \in 1..Len(sub) : str[k + j] = sub[j]

\* strstr-based position of sub_str in str, or -1
strpos(str, sub_str) ==
    IF \E k \in 0..Len(str) : IsSubAt(str, sub_str, k)
    THEN CHOOSE k \in 0..Len(str) :
            /\ IsSubAt(str, sub_str, k)
            /\ \A m \in 0..(k - 1) : ~IsSubAt(str, sub_str, m)
    ELSE -1

\* index of the first delimiter in s, or Len(s) + 1
FirstDelim(s, d) ==
    IF \E k \in 1..Len(s) : s[k] = d
    THEN CHOOSE k \in 1..Len(s) : s[k] = d /\ \A m \in 1..(k - 1) : s[m] # d
    ELSE Len(s) + 1

\* the tokens that the loop  tok[0] = strtok(s, d); while (tok[i]) tok[++i] =
\* strtok(NULL, d)  produces: delimiters are skipped, empty tokens never occur
\* a splitter that keeps the empty field between two delimiters
RECURSIVE strtok_all_keep_empty(_, _)
strtok_all_keep_empty(s, d) ==
    IF s = <<>> THEN <<>>
    ELSE LET n == FirstDelim(s, d)
         IN  <<SubSeq(s, 1, n - 1)>> \o
             strtok_all_keep_empty(SubSeq(s, n + 1, Len(s)), d)

RECURSIVE strtok_all(_, _)
strtok_all(s, d) ==
    IF s = <<>> THEN <<>>
    ELSE IF Head(s) = d THEN strtok_all(Tail(s), d)
    ELSE LET n == FirstDelim(s, d)
         IN  <<SubSeq(s, 1, n - 1)>> \o strtok_all(SubSeq(s, n + 1, Len(s)), d)

\* token[k] of a zeroed token array filled by the loop above (0-based)
TokenAt(toks, k) == IF k + 1 <= Len(toks) THEN toks[k + 1] ELSE NULL

validate_cmd_tokenize(cmd_str) ==
    LET ret == strpos(cmd_str, Scheme)
    IN  IF ret = 0
        THEN [n |-> Len(strtok_all(cmd_str, "/")), tok |-> strtok_all(cmd_str, "/")]
        ELSE [n |-> ret, tok |-> <<>>]

\* index of the last '/' in a path, 0 when there is none
RECURSIVE LastSlash(_, _)
LastSlash(p, k) ==
    IF k = 0 THEN 0 ELSE IF p[k] = "/" THEN k ELSE LastSlash(p, k - 1)

get_filename_separator(file_path) ==
    SubSeq(file_path, LastSlash(file_path, Len(file_path)) + 1, Len(file_path))

\* ------------------------------------------------------------ environment
Min(a, b) == IF a <= b THEN a ELSE b
Max(a, b) == IF a >= b THEN a ELSE b

Uri(rest) == Scheme \o rest

\* what stat() finds at a local path
PathKinds == {"ENOENT", "REG", "DIR", "FIFO"}

\* destination arguments of cp / download
LocalFile == <<"/", "a">>
DestPaths == {NULL, <<"x">>, <<"x", "/">>}

UploadUris ==
    {Uri(<<"d">>), Uri(<<"d", "/", "a">>), Uri(<<"d", "/", ".">>),
     Uri(<<"d", "/", "b">>), Uri(<<>>)}
DownloadUris ==
    {Uri(<<"d">>), Uri(<<"d", "/", "a">>), Uri(<<"d", "/", "b">>),
     Uri(<<"d", "/", "*">>)}

\* the Bridge's answers
BucketNames == {<<"d">>, <<"m">>}
RemoteNames == {<<"a">>, <<"a", ":", "b">>, <<"*">>}
StatusCodes == {200, 401, 404, 500}

\* ids are assigned by the Bridge: the i-th entry of a listing has an id of
\* i hexadecimal digits, never containing ':' or '/'
FileId(i) == [k \in 1..i |-> "f"]
BucketId(i) == [k \in 1..i |-> "b"]
UploadPath(i) == <<"/">> \o [k \in 1..i |-> "u"]

SeqsUpTo(S, n) == UNION {[1..k -> S] : k \in 0..n}

FileListings ==
    {[i \in 1..Len(ns) |-> [id |-> FileId(i), filename |-> ns[i]]] :
        ns \in SeqsUpTo(RemoteNames, MaxFiles)}
BucketListings ==
    {[i \in 1..Len(ns) |-> [id |-> BucketId(i), name |-> ns[i]]] :
        ns \in SeqsUpTo(BucketNames, MaxBuckets)}

\* console lines one overwrite prompt reads: it stops at the first y or n
InputSeqs ==
    {s \in SeqsUpTo({"y", "n", "x"}, MaxInputs) :
        /\ Len(s) >= 1
        /\ s[Len(s)] \in {"y", "n"}
        /\ \A k \in 1..(Len(s) - 1) : s[k] = "x"}

NoFile == [exists |-> FALSE, lines |-> <<>>]
DirLines(n) == [i \in 1..n |-> UploadPath(i)]

\* ------------------------------------------------------------------ state
VARIABLES
    pc,           \* "start" | "loop" (uv_run) | "exited" | "rejected" | "crashed" | "killed"
    exit_status,  \* process exit status, -1 while none
    entry_ret,    \* return value of the entry point
    cli_state,    \* cli_state_t
    path_kind,    \* what stat() finds at the local path argument
    pending,      \* Bridge listing requests whose callback has not fired
    get_buckets_calls, \* calls of storj_bridge_get_buckets so far
    nHandles,     \* transfer states created by storeFile / resolveFile
    live,         \* handles whose completion callback has not fired
    canceled,     \* handles on which cancel was called while live
    fdOpen,       \* handles whose source / destination FILE* is open
    sigs,         \* handles whose uv_signal_t watcher is started
    fs,           \* the list files: dwnld_list.txt and the upload list
    listOpen,     \* FILE* handles open on a list file
    execLog,      \* calls of upload_file / download_file, in order
    dispatched,   \* of those calls, how many started a Bridge transfer
    batch,        \* the work list written by this invocation
    lastDl,       \* what the last download_file call saw and did
    lastStatus,   \* status of the last completion callback, -1 if none
    sigintCount,  \* interrupt signals delivered
    lastSigint,   \* what the last interrupt cancelled
    intrItem,     \* executor call during which the last interrupt hit
    stdout,       \* messages printed so far
    firstMatch,   \* id of the first bucket of the listing received that bears
                  \* the requested name, NULL when the listing has none
    dwnld_list0,  \* whether the invocation found a dwnld_list.txt
    argv_in,      \* the argument vector and environment of a cp invocation
    tok_out,      \* what validate_cmd_tokenize returned for argv_in.uri
    cp_out,       \* what main's cp branch did with argv_in
    tree,         \* the entries of the directory handed to file_exists
    out_fd,       \* the lines printdir wrote to output.txt
    req           \* a file listing answer of the Bridge, before its callback

vars == <<pc, exit_status, entry_ret, cli_state, path_kind, pending,
          get_buckets_calls, nHandles, live, canceled, fdOpen, sigs, fs,
          listOpen, execLog, dispatched, batch, lastDl, lastStatus,
          sigintCount, lastSigint, intrItem, stdout, firstMatch, dwnld_list0,
          argv_in, tok_out, cp_out, tree, out_fd, req>>

cpVars == <<argv_in, tok_out, cp_out>>
dirVars == <<tree, out_fd>>
queueVars ==
    <<pc, exit_status, entry_ret, cli_state, path_kind, pending,
      get_buckets_calls, nHandles, live, canceled, fdOpen, sigs, fs,
      listOpen, execLog, dispatched, batch, lastDl, lastStatus,
      sigintCount, lastSigint, intrItem, stdout, firstMatch, dwnld_list0>>

\* the part of the state a callback and the functions it calls rewrite
World ==
    [pc |-> pc, exit_status |-> exit_status, cs |-> cli_state,
     pending |-> pending, get_buckets_calls |-> get_buckets_calls,
     nHandles |-> nHandles, live |-> live, fdOpen |-> fdOpen, sigs |-> sigs,
     fs |-> fs, listOpen |-> listOpen, execLog |-> execLog,
     dispatched |-> dispatched, batch |-> batch, lastDl |-> lastDl,
     stdout |-> stdout]

Apply(w) ==
    /\ pc' = w.pc
    /\ exit_status' = w.exit_status
    /\ cli_state' = w.cs
    /\ pending' = w.pending
    /\ get_buckets_calls' = w.get_buckets_calls
    /\ nHandles' = w.nHandles
    /\ live' = w.live
    /\ fdOpen' = w.fdOpen
    /\ sigs' = w.sigs
    /\ fs' = w.fs
    /\ listOpen' = w.listOpen
    /\ execLog' = w.execLog
    /\ dispatched' = w.dispatched
    /\ batch' = w.batch
    /\ lastDl' = w.lastDl
    /\ stdout' = w.stdout

Say(w, msg) == [w EXCEPT !.stdout = @ \cup {msg}]
Exit(w, status) == [w EXCEPT !.pc = "exited", !.exit_status = status]
Crash(w) == [w EXCEPT !.pc = "crashed"]
Running(w) == w.pc \in {"start", "loop"}

NoDl ==
    [called |-> FALSE, existed |-> FALSE, inputs |-> <<>>, unlinked |-> FALSE,
     opened |-> FALSE, dispatched |-> FALSE]

\* ---------------------------------------------------------------- executors
\* storj_bridge_store_file / storj_bridge_resolve_file: a new transfer state,
\* whose completion callback the Bridge fires later, and the SIGINT watcher
\* started for it
StartTransfer(w, fd_open) ==
    LET h == w.nHandles + 1
    IN  [w EXCEPT !.nHandles = h,
                  !.live = @ \cup {h},
                  !.sigs = @ \cup {h},
                  !.fdOpen = IF fd_open THEN @ \cup {h} ELSE @,
                  !.dispatched = @ + 1]

upload_file(w, file_path) ==
    LET w0 == [w EXCEPT !.execLog =
                   Append(@, [id |-> NULL, name |-> NULL, path |-> file_path])]
    IN  IF file_path = NULL
        THEN \* fopen(NULL) fails and strrchr(NULL, '/') reads address 0
             {Crash(Say(w0, "Invalid file path"))}
        ELSE {StartTransfer(w0, TRUE),
              StartTransfer(Say(w0, "Invalid file path"), FALSE)}

\* the while loop of the overwrite prompt: the first line that is y or n
RECURSIVE overwrite_prompt(_)
overwrite_prompt(inputs) ==
    IF inputs = <<>> THEN ""
    ELSE IF Head(inputs) \in {"y", "n"} THEN Head(inputs)
    ELSE overwrite_prompt(Tail(inputs))

overwrite_declined_first_line(inputs) == Head(inputs) = "n"
overwrite_declined(inputs) == overwrite_prompt(inputs) = "n"

download_file(w, file_id, name, path, existsSet, openSet) ==
    LET w0 == [w EXCEPT !.execLog =
                   Append(@, [id |-> file_id, name |-> name, path |-> path])]
        Seen(ex, inputs, unl, opn, dsp) ==
            [called |-> TRUE, existed |-> ex, inputs |-> inputs,
             unlinked |-> unl, opened |-> opn, dispatched |-> dsp]
        Outcome(ex, inputs, ok) ==
            IF ex /\ overwrite_declined(inputs)
            THEN [Say(w0, "Canceled overwriting") EXCEPT
                     !.lastDl = Seen(ex, inputs, FALSE, FALSE, FALSE)]
            ELSE IF ~ok
            THEN [Say(w0, "Unable to open") EXCEPT
                     !.lastDl = Seen(ex, inputs, ex, FALSE, FALSE)]
            ELSE [StartTransfer(w0, TRUE) EXCEPT
                     !.lastDl = Seen(ex, inputs, ex, TRUE, TRUE)]
    IN  IF path = NULL
        THEN {[StartTransfer(w0, TRUE) EXCEPT
                  !.lastDl = Seen(FALSE, <<>>, FALSE, FALSE, TRUE)]}
        ELSE {Outcome(ex, IF ex THEN inputs ELSE <<>>, ok) :
                  ex \in existsSet, inputs \in InputSeqs, ok \in openSet}

\* ------------------------------------------------------------ queue manager
\* the items one call of queue_next_cli_cmd hands to the executor: the item
\* at the cursor while the cursor has not passed the total
ItemsToDispatchAll(curr, total) ==
    IF curr <= total THEN [k \in 1..(total - curr + 1) |-> curr + k - 1] ELSE <<>>
ItemsToDispatchOffByOne(curr, total) ==
    IF curr <= total + 1 THEN <<curr>> ELSE <<>>
ItemsToDispatch(curr, total) ==
    IF curr <= total THEN <<curr>> ELSE <<>>

\* the line the fgets loop stops at when the cursor is idx
LineRead(lines, idx) == Min(Len(lines), Max(idx, 1))

upload_item_resolving(w, idx) ==
    LET lines == w.fs.upload_list.lines
        n     == LineRead(lines, idx)
        w1    == IF n > 0 THEN [w EXCEPT !.cs.file_path = lines[n]] ELSE w
        w2    == [w1 EXCEPT !.pending = @ \cup {"get_buckets"},
                            !.get_buckets_calls = @ + 1]
    IN  IF ~Running(w) THEN {w}
        ELSE {IF Running(x) THEN [x EXCEPT !.cs.curr_up_file = @ + 1] ELSE x :
                 x \in upload_file([w2 EXCEPT !.listOpen = @ + 1], w2.cs.file_path)}

upload_item(w, idx) ==
    LET lines == w.fs.upload_list.lines
        n     == LineRead(lines, idx)
        w1    == IF n > 0 THEN [w EXCEPT !.cs.file_path = lines[n]] ELSE w
    IN  IF ~Running(w) THEN {w}
        ELSE {IF Running(x) THEN [x EXCEPT !.cs.curr_up_file = @ + 1] ELSE x :
                 x \in upload_file([w1 EXCEPT !.listOpen = @ + 1], w1.cs.file_path)}

download_item(w, idx) ==
    LET lines == w.fs.dwnld_list.lines
        n     == LineRead(lines, idx)
        token == IF n > 0 THEN strtok_all(lines[n], ":") ELSE <<>>
        w0    == [w EXCEPT !.cs.file_id = TokenAt(token, 0), !.listOpen = @ + 1]
        w1    == [w0 EXCEPT !.cs.curr_up_file = @ + 1]
    IN  IF ~Running(w) THEN {w}
        ELSE IF TokenAt(token, 1) = NULL
        THEN {Crash(w0)}    \* strcat(temp_path, NULL)
        ELSE download_file(w1, w1.cs.file_id, TokenAt(token, 1),
                           w.cs.file_path \o TokenAt(token, 1),
                           BOOLEAN, BOOLEAN)

RECURSIVE ForEachItem(_, _, _)
ForEachItem(W, idxs, upload) ==
    IF idxs = <<>> THEN W
    ELSE ForEachItem(
             UNION {IF upload THEN upload_item(w, Head(idxs))
                              ELSE download_item(w, Head(idxs)) : w \in W},
             Tail(idxs), upload)

queue_next_cli_cmd(w) ==
    LET cs == w.cs
        items == ItemsToDispatch(cs.curr_up_file, cs.total_files)
    IN  IF /\ cs.curr_cmd_req \in {"list-files", "download-file"}
           /\ cs.next_cmd_req \in {"list-files-1", "download-file-1"}
        THEN IF cs.next_cmd_req = "list-files-1"
             THEN {[w EXCEPT !.pending = @ \cup {"list_files"}]}
             ELSE IF w.fs.dwnld_list.exists
             THEN IF items # <<>>
                  THEN ForEachItem({w}, items, FALSE)
                  ELSE IF w.fs.dwnld_list.lines = <<>>
                  THEN \* strtok on an uninitialised pointer
                       {Crash(w), Exit(Say(w, "done downloading files"), 0)}
                  ELSE {Exit(Say(w, "done downloading files"), 0)}
             ELSE download_file(w, cs.file_id, NULL, cs.file_path,
                                {path_kind # "ENOENT"},
                                IF path_kind = "DIR" THEN {FALSE} ELSE BOOLEAN)
        ELSE IF cs.curr_cmd_req = "upload-file" /\ cs.next_cmd_req = "upload-file-1"
        THEN IF cs.file_name # NULL /\ w.fs.upload_list.exists
             THEN IF items # <<>>
                  THEN ForEachItem({w}, items, TRUE)
                  ELSE {Exit(Say(w, "done uploading files"), 0)}
             ELSE upload_file(w, cs.file_path)
        ELSE {w}

\* ------------------------------------------------------------ entry points
check_file_path(kind) ==
    CASE kind = "ENOENT" -> CLI_NO_SUCH_FILE_OR_DIR
      [] kind = "DIR"    -> CLI_VALID_DIR
      [] kind = "REG"    -> CLI_VALID_REGULAR_FILE
      [] OTHER           -> CLI_UNKNOWN_FILE_ATTR

\* file_exists: as check_file_path, but a directory is first enumerated into
\* output.txt (out_ok: fopen("output.txt", "w") succeeded)
file_exists(kind, out_ok) ==
    IF kind = "DIR" /\ ~out_ok THEN CLI_UPLOAD_FILE_LOG_ERR ELSE check_file_path(kind)

storj_bridge_get_buckets(w) ==
    [w EXCEPT !.pending = @ \cup {"get_buckets"}, !.get_buckets_calls = @ + 1]

UploadBatch(lines) ==
    [active |-> TRUE, kind |-> "upload",
     items |-> [i \in 1..Len(lines) |-> [id |-> NULL, name |-> NULL, path |-> lines[i]]]]

UploadListName == <<"o">>

\* cli_upload_file(path, bucket_name, cli_state); n: the files printdir finds,
\* pwd_set: getenv("PWD") != NULL.  Returns the new state and the return value.
cli_upload_file(w, kind, path, uri, n, out_ok, pwd_set) ==
    LET st    == file_exists(kind, out_ok)
        t     == validate_cmd_tokenize(uri)
        token(k) == TokenAt(t.tok, k)
        wl    == IF kind = "DIR" /\ out_ok
                 THEN [w EXCEPT !.fs.upload_list = [exists |-> TRUE, lines |-> DirLines(n)],
                                !.batch = UploadBatch(DirLines(n))]
                 ELSE w
        single == storj_bridge_get_buckets(
                    [wl EXCEPT !.cs.total_files = 0, !.cs.curr_up_file = 0,
                               !.cs.curr_cmd_req = "upload-file",
                               !.cs.bucket_name = token(1),
                               !.cs.file_path = path])
        reject == [wl EXCEPT !.cs.total_files = 0, !.cs.curr_up_file = 0]
    IN  IF st \in {CLI_UNKNOWN_FILE_ATTR, CLI_NO_SUCH_FILE_OR_DIR}
        THEN [w |-> Say(wl, "Invalid filename"), ret |-> 0]
        ELSE IF st = CLI_VALID_REGULAR_FILE
        THEN IF t.n = 3
             THEN IF get_filename_separator(path) = token(2) \/ token(2) = <<".">>
                  THEN [w |-> single, ret |-> 0]
                  ELSE [w |-> Say(reject, "Invalid upload target filename"), ret |-> -1]
             ELSE IF t.n = 2
             THEN [w |-> single, ret |-> 0]
             ELSE [w |-> Say(reject, "Invalid command"), ret |-> -1]
        ELSE IF st = CLI_VALID_DIR
        THEN IF ~pwd_set
             THEN [w |-> wl, ret |-> -1]
             ELSE [w |-> storj_bridge_get_buckets(
                            [wl EXCEPT !.cs.file_name = UploadListName,
                                       !.cs.total_files = n,
                                       !.cs.curr_up_file = IF n > 0 THEN 1 ELSE 0,
                                       !.cs.curr_cmd_req = "upload-file",
                                       !.cs.bucket_name = token(1)]),
                   ret |-> 0]
        ELSE [w |-> wl, ret |-> 0]

cli_download_file_any_target(w, kind, path, uri) ==
    LET t  == validate_cmd_tokenize(uri)
        w1 == [w EXCEPT !.cs.curr_cmd_req = "download-file",
                        !.cs.bucket_name = TokenAt(t.tok, 1),
                        !.cs.file_name = TokenAt(t.tok, 2),
                        !.cs.file_path = path]
    IN  IF w1.cs.bucket_name = NULL \/ w1.cs.file_name = NULL \/ w1.cs.file_path = NULL
        THEN [w |-> Say(w1, "Missing arguments"), ret |-> -1]
        ELSE [w |-> storj_bridge_get_buckets(w1), ret |-> 0]

cli_download_file(w, kind, path, uri) ==
    LET t  == validate_cmd_tokenize(uri)
        w1 == [w EXCEPT !.cs.curr_cmd_req = "download-file",
                        !.cs.bucket_name = TokenAt(t.tok, 1),
                        !.cs.file_name = TokenAt(t.tok, 2),
                        !.cs.file_path = path]
    IN  IF w1.cs.bucket_name = NULL \/ w1.cs.file_name = NULL \/ w1.cs.file_path = NULL
        THEN [w |-> Say(w1, "Missing arguments"), ret |-> -1]
        ELSE IF w1.cs.file_name = <<"*">> /\ check_file_path(kind) # CLI_VALID_DIR
        THEN [w |-> Say(w1, "target is not a directory"), ret |-> -1]
        ELSE [w |-> storj_bridge_get_buckets(w1), ret |-> 0]

\* list-files <bucket-name>: the command and the bucket name are recorded and
\* the bucket is resolved first
cli_list_files(w, bucket_name) ==
    [w |-> storj_bridge_get_buckets(
              [w EXCEPT !.cs.curr_cmd_req = "list-files",
                        !.cs.bucket_name = bucket_name]),
     ret |-> 0]

\* ------------------------------------------------------- Bridge callbacks
\* the scan of get_bucket_id_callback: index of the bucket the loop breaks at,
\* 0 when it runs to the end
RECURSIVE bucket_scan_last(_, _, _)
bucket_scan_last(buckets, bucket_name, i) ==
    IF i > Len(buckets) THEN 0
    ELSE LET later == bucket_scan_last(buckets, bucket_name, i + 1)
         IN  IF later # 0 THEN later
             ELSE IF buckets[i].name = bucket_name THEN i ELSE 0

RECURSIVE bucket_scan(_, _, _)
bucket_scan(buckets, bucket_name, i) ==
    IF i > Len(buckets) THEN 0
    ELSE IF buckets[i].name = bucket_name THEN i
    ELSE bucket_scan(buckets, bucket_name, i + 1)

NextCmdFor(curr_cmd_req) ==
    CASE curr_cmd_req = "list-files"    -> "list-files-1"
      [] curr_cmd_req = "download-file" -> "list-files-1"
      [] curr_cmd_req = "upload-file"   -> "upload-file-1"
      [] OTHER                          -> "NULL"

get_bucket_id_callback_dispatch_unmatched(w, status_code, buckets) ==
    LET w0 == [w EXCEPT !.pending = @ \ {"get_buckets"}]
        m  == IF w.cs.bucket_name = NULL THEN 0
              ELSE bucket_scan(buckets, w.cs.bucket_name, 1)
        w2 == IF buckets = <<>> THEN w0
              ELSE [w0 EXCEPT !.cs.bucket_id = IF m # 0 THEN buckets[m].id ELSE @,
                              !.cs.next_cmd_req = NextCmdFor(w.cs.curr_cmd_req)]
    IN  IF buckets # <<>> /\ NextCmdFor(w.cs.curr_cmd_req) # "NULL"
        THEN queue_next_cli_cmd(w2)
        ELSE {w2}

get_bucket_id_callback(w, status_code, buckets) ==
    LET w0 == [w EXCEPT !.pending = @ \ {"get_buckets"}]
        w1 == IF status_code = 401 THEN Say(w0, "Invalid user credentials")
              ELSE IF status_code \notin {200, 304} THEN Say(w0, "Request failed")
              ELSE IF buckets = <<>> THEN Say(w0, "No buckets")
              ELSE w0
        m  == IF w.cs.bucket_name = NULL THEN 0
              ELSE bucket_scan(buckets, w.cs.bucket_name, 1)
        w2 == IF buckets = <<>> THEN w1
              ELSE IF m = 0
              THEN [(IF w.cs.bucket_name # NULL
                     THEN Say(w1, "Invalid bucket name") ELSE w1)
                    EXCEPT !.cs.next_cmd_req = "NULL"]
              ELSE [w1 EXCEPT !.cs.bucket_id = buckets[m].id,
                              !.cs.next_cmd_req = NextCmdFor(w.cs.curr_cmd_req)]
    IN  IF m # 0 /\ NextCmdFor(w.cs.curr_cmd_req) # "NULL"
        THEN queue_next_cli_cmd(w2)
        ELSE {w2}

DownloadBatch(files, dir) ==
    [active |-> TRUE, kind |-> "download",
     items |-> [i \in 1..Len(files) |->
                  [id |-> files[i].id, name |-> files[i].filename,
                   path |-> dir \o files[i].filename]]]

RemoveDwnldList(w) ==
    IF w.fs.dwnld_list.exists
    THEN [Say(w, "file deleted") EXCEPT !.fs.dwnld_list = NoFile]
    ELSE w

RECURSIVE list_files_scan_first(_, _, _, _)
list_files_scan_first(w, files, i, to_file) ==
    IF i > Len(files) THEN w
    ELSE LET file == files[i]
             w1 == IF w.cs.curr_cmd_req = "list-files" THEN Say(w, "file listed") ELSE w
             w2 == IF to_file /\ w1.fs.dwnld_list.exists
                   THEN [w1 EXCEPT !.fs.dwnld_list.lines =
                            Append(@, file.id \o <<":">> \o file.filename)]
                   ELSE w1
             w3 == IF w2.cs.file_name # NULL /\ w2.cs.file_name = file.filename
                   THEN [(IF to_file THEN RemoveDwnldList(w2) ELSE w2) EXCEPT
                            !.cs.file_id = IF @ = NULL THEN file.id ELSE @,
                            !.cs.next_cmd_req = "download-file-1",
                            !.cs.total_files = 0]
                   ELSE w2
         IN  list_files_scan_first(w3, files, i + 1, to_file)

\* the for loop of list_files_callback; to_file: dwnld_list_fd != stdout
RECURSIVE list_files_scan(_, _, _, _)
list_files_scan(w, files, i, to_file) ==
    IF i > Len(files) THEN w
    ELSE LET file == files[i]
             w1 == IF w.cs.curr_cmd_req = "list-files" THEN Say(w, "file listed") ELSE w
             w2 == IF to_file /\ w1.fs.dwnld_list.exists
                   THEN [w1 EXCEPT !.fs.dwnld_list.lines =
                            Append(@, file.id \o <<":">> \o file.filename)]
                   ELSE w1
             w3 == IF w2.cs.file_name # NULL /\ w2.cs.file_name = file.filename
                   THEN [(IF to_file THEN RemoveDwnldList(w2) ELSE w2) EXCEPT
                            !.cs.file_id = file.id,
                            !.cs.next_cmd_req = "download-file-1",
                            !.cs.total_files = 0]
                   ELSE w2
         IN  list_files_scan(w3, files, i + 1, to_file)

list_files_callback(w, status_code, files, open_ok) ==
    LET w0 == [w EXCEPT !.pending = @ \ {"list_files"}]
        wild == w.cs.file_name # NULL /\ w.cs.file_name = <<"*">>
        w1 == IF status_code # 200 THEN Say(w0, "Request failed") ELSE w0
        w2 == IF files = <<>> THEN Say(w1, "No files for bucket") ELSE w1
        w3 == [w2 EXCEPT !.cs.file_id = NULL]
        w4 == IF wild
              THEN [w3 EXCEPT !.fs.dwnld_list = [exists |-> TRUE, lines |-> <<>>],
                              !.batch = DownloadBatch(files, w.cs.file_path),
                              !.cs.total_files = Len(files)]
              ELSE w3
        w5 == list_files_scan(w4, files, 1, wild)
    IN  IF status_code \in {404, 400, 401}
        THEN {Say(w0, "listing refused")}
        ELSE IF wild /\ ~open_ok
        THEN {Say(w3, "Unable to create download list file")}
        ELSE IF w5.cs.curr_cmd_req = "download-file"
        THEN queue_next_cli_cmd([w5 EXCEPT !.cs.curr_up_file = 1,
                                           !.cs.next_cmd_req = "download-file-1"])
        ELSE {RemoveDwnldList(w5)}

\* ---------------------------------------------------- completion callbacks
\* the Bridge's store-file operation releases the source handle it was given
\* before it calls the completion callback, whatever the status
storj_bridge_store_file_finish(w, h) == [w EXCEPT !.fdOpen = @ \ {h}]

upload_file_complete_exit_on_failure(w, h, status) ==
    LET w0 == [w EXCEPT !.live = @ \ {h}]
    IN  IF status # 0
        THEN {Exit(Say(w0, "Upload failure"), status)}
        ELSE IF w0.cs.total_files = 0 /\ w0.cs.curr_up_file = 0
        THEN {Exit(Say(w0, "Upload Success"), 0)}
        ELSE queue_next_cli_cmd(Say(w0, "Upload Success"))

upload_file_complete(w, h, status) ==
    LET w0 == [w EXCEPT !.live = @ \ {h}]
        w1 == IF status # 0 THEN Say(w0, "Upload failure") ELSE w0
        w2 == Say(w1, "Upload Success")
    IN  IF w2.cs.total_files = 0 /\ w2.cs.curr_up_file = 0
        THEN {Exit(w2, 0)}
        ELSE queue_next_cli_cmd(w2)

download_file_complete_keep_open(w, h, status) ==
    LET w0 == [w EXCEPT !.live = @ \ {h}]
        w1 == IF status # 0 THEN Say(w0, "Download failure")
              ELSE Say(w0, "Download Success")
    IN  IF w1.cs.total_files = 0
        THEN {Exit(w1, 0)}
        ELSE queue_next_cli_cmd(w1)

download_file_complete(w, h, status) ==
    LET w0 == [w EXCEPT !.live = @ \ {h}, !.fdOpen = @ \ {h}]
        w1 == IF status # 0 THEN Say(w0, "Download failure")
              ELSE Say(w0, "Download Success")
    IN  IF w1.cs.total_files = 0
        THEN {Exit(w1, 0)}
        ELSE queue_next_cli_cmd(w1)

\* ------------------------------------------------------------------ actions
\* the listing as the Bridge sent it: the id of its first entry named name
FirstBearing(buckets, name) ==
    LET hits == {i \in 1..Len(buckets) : buckets[i].name = name}
    IN  IF hits = {} THEN NULL
        ELSE buckets[CHOOSE i \in hits : \A j \in hits : i <= j].id

NoArgv == [shape |-> "none"]
NoTok == [done |-> FALSE]
NoCp == [done |-> FALSE]

StaleDwnldList ==
    [exists |-> TRUE, lines |-> <<FileId(1) \o <<":">> \o <<"a">> >>]

InitQueue ==
    /\ pc = "start"
    /\ exit_status = -1
    /\ entry_ret = 0
    /\ cli_state = [bucket_name |-> NULL, bucket_id |-> NULL, file_name |-> NULL,
                    file_path |-> NULL, file_id |-> NULL, total_files |-> 0,
                    curr_up_file |-> 0, curr_cmd_req |-> "NULL",
                    next_cmd_req |-> "NULL"]
    /\ path_kind = "ENOENT"
    /\ pending = {}
    /\ get_buckets_calls = 0
    /\ nHandles = 0
    /\ live = {}
    /\ canceled = {}
    /\ fdOpen = {}
    /\ sigs = {}
    /\ fs \in {[dwnld_list |-> d, upload_list |-> NoFile] :
                  d \in {NoFile, StaleDwnldList, [exists |-> TRUE, lines |-> <<>>]}}
    /\ listOpen = 0
    /\ execLog = <<>>
    /\ dispatched = 0
    /\ batch = [active |-> FALSE, kind |-> "none", items |-> <<>>]
    /\ lastDl = NoDl
    /\ lastStatus = -1
    /\ sigintCount = 0
    /\ lastSigint = [cancelled |-> {}, liveAt |-> {}]
    /\ intrItem = 0
    /\ stdout = {}
    /\ firstMatch = NULL
    /\ dwnld_list0 = fs.dwnld_list.exists

NoTree == <<>>
NoOut == [done |-> FALSE, lines |-> <<>>]
NoReq == [done |-> TRUE]

Init ==
    /\ InitQueue
    /\ argv_in = NoArgv
    /\ tok_out = NoTok
    /\ cp_out = NoCp
    /\ tree = NoTree
    /\ out_fd = NoOut
    /\ req = NoReq

\* main hands the command to the entry point and then runs the event loop
Entered(r, kind) ==
    /\ Apply([r.w EXCEPT !.pc = IF r.ret = 0 THEN "loop" ELSE "rejected"])
    /\ entry_ret' = r.ret
    /\ path_kind' = kind
    /\ UNCHANGED <<canceled, lastStatus, sigintCount, lastSigint, intrItem,
                   firstMatch,
                   dwnld_list0, cpVars, dirVars, req>>

CliUploadFile ==
    /\ pc = "start"
    /\ \E kind \in PathKinds, uri \in UploadUris, n \in 0..MaxFiles,
          out_ok \in BOOLEAN, pwd_set \in BOOLEAN :
          Entered(cli_upload_file(World, kind, LocalFile, uri, n, out_ok, pwd_set), kind)

CliDownloadFile ==
    /\ pc = "start"
    /\ \E kind \in PathKinds, path \in DestPaths, uri \in DownloadUris :
          Entered(cli_download_file(World, kind, path, uri), kind)

CliListFiles ==
    /\ pc = "start"
    /\ \E bucket_name \in BucketNames :
          Entered(cli_list_files(World, bucket_name), "ENOENT")

Callback(W) ==
    /\ \E w \in W : Apply(w)
    /\ UNCHANGED <<entry_ret, path_kind, canceled, sigintCount, lastSigint,
                   intrItem, dwnld_list0, cpVars, dirVars, req>>

GetBucketIdCallback ==
    /\ pc = "loop"
    /\ "get_buckets" \in pending
    /\ \E status_code \in StatusCodes, buckets \in BucketListings :
          /\ Callback(get_bucket_id_callback(World, status_code, buckets))
          /\ firstMatch' = FirstBearing(buckets, cli_state.bucket_name)
    /\ UNCHANGED lastStatus

ListFilesCallback ==
    /\ pc = "loop"
    /\ "list_files" \in pending
    /\ \E status_code \in StatusCodes, files \in FileListings, open_ok \in BOOLEAN :
          Callback(list_files_callback(World, status_code, files, open_ok))
    /\ UNCHANGED <<lastStatus, firstMatch>>

\* the status the Bridge completes a transfer with: 0 success, 1 a transfer
\* error, 2 cancelled
CompletionStatus(h) == IF h \in canceled THEN {2} ELSE {0, 1}

UploadFileComplete ==
    /\ pc = "loop"
    /\ cli_state.curr_cmd_req = "upload-file"
    /\ \E h \in live : \E status \in CompletionStatus(h) :
          /\ Callback(upload_file_complete(
                          storj_bridge_store_file_finish(World, h), h, status))
          /\ lastStatus' = status
    /\ UNCHANGED firstMatch

DownloadFileComplete ==
    /\ pc = "loop"
    /\ cli_state.curr_cmd_req = "download-file"
    /\ \E h \in live : \E status \in CompletionStatus(h) :
          /\ Callback(download_file_complete(World, h, status))
          /\ lastStatus' = status
    /\ UNCHANGED firstMatch

\* SIGINT: libuv runs the handler of every started watcher; each handler
\* cancels the transfer state in its req->data, stops and closes its watcher
signal_handlers(started) == started

Sigint ==
    /\ pc = "loop"
    /\ sigintCount < MaxSigint
    /\ sigs # {}
    /\ sigintCount' = sigintCount + 1
    /\ lastSigint' = [cancelled |-> signal_handlers(sigs), liveAt |-> live]
    /\ canceled' = canceled \cup (signal_handlers(sigs) \cap live)
    /\ sigs' = sigs \ signal_handlers(sigs)
    /\ intrItem' = IF live # {} THEN Len(execLog) ELSE intrItem
    /\ UNCHANGED <<pc, exit_status, entry_ret, cli_state, path_kind, pending,
                   get_buckets_calls, nHandles, live, fdOpen, fs, listOpen,
                   execLog, dispatched, batch, lastDl, lastStatus, stdout,
                   firstMatch,
                   dwnld_list0, cpVars, dirVars, req>>

\* SIGINT with no watcher started: the default disposition ends the process
SigintDefault ==
    /\ pc = "loop"
    /\ sigintCount < MaxSigint
    /\ sigs = {}
    /\ sigintCount' = sigintCount + 1
    /\ pc' = "killed"
    /\ UNCHANGED <<exit_status, entry_ret, cli_state, path_kind, pending,
                   get_buckets_calls, nHandles, live, canceled, fdOpen, sigs, fs,
                   listOpen, execLog, dispatched, batch, lastDl, lastStatus,
                   lastSigint, intrItem, stdout, firstMatch,
                   dwnld_list0, cpVars, dirVars, req>>

\* uv_run returns once no request, transfer or watcher is active; main then
\* returns status, which is still 0
LoopExit ==
    /\ pc = "loop"
    /\ pending = {} /\ live = {} /\ sigs = {}
    /\ pc' = "exited"
    /\ exit_status' = 0
    /\ UNCHANGED <<entry_ret, cli_state, path_kind, pending, get_buckets_calls,
                   nHandles, live, canceled, fdOpen, sigs, fs, listOpen, execLog,
                   dispatched, batch, lastDl, lastStatus, sigintCount,
                   lastSigint, intrItem, stdout, firstMatch,
                   dwnld_list0, cpVars, dirVars, req>>

Next ==
    \/ CliUploadFile
    \/ CliDownloadFile
    \/ CliListFiles
    \/ GetBucketIdCallback
    \/ ListFilesCallback
    \/ UploadFileComplete
    \/ DownloadFileComplete
    \/ Sigint
    \/ SigintDefault
    \/ LoopExit

Spec == Init /\ [][Next]_vars

\* ------------------------------------------------- the URI tokenizer alone
\* arguments handed to validate_cmd_tokenize: any text after the scheme, the
\* scheme at the start, later in the string, or absent
TokAlphabet == {"d", "a", "/", "."}
Junk(k) == [i \in 1..k |-> "x"]
TokInputs ==
    {Junk(k) \o Scheme \o r :
        k \in 0..MaxJunk, r \in SeqsUpTo(TokAlphabet, MaxRest)}
    \cup SeqsUpTo(TokAlphabet, MaxRest)

InitTok ==
    /\ InitQueue
    /\ fs.dwnld_list = NoFile
    /\ argv_in \in {[shape |-> "uri", uri |-> u] : u \in TokInputs}
    /\ tok_out = NoTok
    /\ cp_out = NoCp
    /\ tree = NoTree
    /\ out_fd = NoOut
    /\ req = NoReq

\* one call of validate_cmd_tokenize(argv_in.uri, token) with a token array
\* as large as cli_upload_file's; said: the Invalid Command Entry message
Tokenize ==
    /\ argv_in.shape = "uri"
    /\ ~tok_out.done
    /\ LET t == validate_cmd_tokenize(argv_in.uri)
       IN  tok_out' = [done |-> TRUE, n |-> t.n, tok |-> t.tok,
                       said |-> strpos(argv_in.uri, Scheme) = -1]
    /\ UNCHANGED <<queueVars, argv_in, cp_out, dirVars, req>>

SpecTok == InitTok /\ [][Tokenize]_vars

\* ------------------------------------------------------ main: the cp command
\* storj cp <first> <last>, storj cp -r <first> <last> (getopt leaves
\* storj -r <first> cp <last>), storj cp <first> <extra> <last>; one of first
\* and last is the storj:// argument, the other a local path
CpShapes == {"cp", "cp-r", "cp-2"}
CpUris ==
    {Uri(<<>>), Uri(<<"d">>), Uri(<<"d", "/">>), Uri(<<"d", "/", "a">>),
     Uri(<<"d", "/", ".">>), Uri(<<"d", "/", "b">>),
     Uri(<<"d", "/", "a", "/", "b">>), <<"x">> \o Uri(<<"d">>), <<"d">>}
CpLocals == {<<"/", "a">>, <<"a">>}
ExtraSrc == <<"/", "e">>
CpEnvs == {"no TMPDIR", "list unwritable", "ok"}
CpArgvs ==
    {[shape |-> sh, uri_side |-> side, uri |-> u, local |-> l, kind |-> k,
      env |-> e] :
        sh \in CpShapes, side \in {"src", "dst"}, u \in CpUris,
        l \in CpLocals, k \in PathKinds, e \in CpEnvs}

\* a field of *storj_api that main has not written: memset clears
\* sizeof(storj_api) bytes, the size of the pointer
Indeterminate == <<"?">>
ListPath == <<"t">>

\* the destination name of a single-file cp
cp_dst_file_as_given(token2, dst_file_name) ==
    IF token2 = NULL THEN dst_file_name ELSE token2
cp_dst_file(token2, dst_file_name) ==
    IF token2 = NULL \/ dst_file_name = token2 \/ token2 = <<".">>
    THEN dst_file_name ELSE token2

\* the test of the batch branch on num_of_tokens
cp_batch_tokens_ok(n) == (n > 0) /\ ((n >= 2) \/ (n <= 3))

\* validate_cmd_tokenize stores one pointer more than it counts: with three
\* tokens or more it writes past the end of main's char *token[3]
TokenOverflow(t) == Len(t.tok) >= 3

main_cp(a) ==
    LET argc == IF a.shape = "cp" THEN 4 ELSE 5
        command_index == IF a.shape = "cp-r" THEN 3 ELSE 1
        first == IF a.uri_side = "src" THEN a.uri ELSE a.local
        last  == IF a.uri_side = "dst" THEN a.uri ELSE a.local
        args  == CASE a.shape = "cp"   -> <<first, last>>
                   [] a.shape = "cp-r" -> <<last>>
                   [] OTHER            -> <<first, ExtraSrc, last>>
        stat(p) == check_file_path(IF p = a.local THEN a.kind ELSE "ENOENT")
        src_path == first
        dst_path == last
        ret == strpos(dst_path, Scheme)
        upload == ret = 0
        download == ret = -1 /\ strpos(src_path, Scheme) = 0
        local_file_path == IF upload THEN src_path ELSE dst_path
        bucket_name == IF upload THEN dst_path ELSE src_path
        cmd_type == IF upload THEN "UPLOAD_CMD"
                    ELSE IF download THEN "DOWNLOAD_CMD"
                    ELSE IF a.shape = "cp-r" THEN "RECURSIVE_CMD"
                    ELSE "NON_RECURSIVE_CMD"
        api0 == [bucket_name |-> Indeterminate, file_name |-> Indeterminate,
                 file_path |-> Indeterminate, dst_file |-> Indeterminate]
        Out(end, call, msg, api, n, list) ==
            [done |-> TRUE, end |-> end, status |-> 0, call |-> call,
             msg |-> msg, cmd_type |-> cmd_type, api |-> api, n |-> n,
             list |-> list]
        End(msg, api, n, list) == Out("end_program", "none", msg, api, n, list)
        Fault(api, list) == Out("crash", "none", "", api, -1, list)
        t == validate_cmd_tokenize(bucket_name)
        token(k) == TokenAt(t.tok, k)
        \* the single-file branch
        Single ==
            LET api1 == [api0 EXCEPT !.file_name = local_file_path]
                dst_file_name == get_filename_separator(local_file_path)
                api2 == [api1 EXCEPT !.bucket_name = token(1),
                                     !.dst_file = cp_dst_file(token(2), dst_file_name)]
                go   == IF t.n = 2 \/ t.n = 3
                        THEN Out("uv_run", "storj_upload_file", "", api2, t.n, <<>>)
                        ELSE End("Valid dst filename missing", api1, t.n, <<>>)
            IN  IF TokenOverflow(t) THEN {go, Fault(api1, <<>>)} ELSE {go}
        \* the directory branch
        Batch ==
            LET api1 == [api0 EXCEPT !.file_path = local_file_path]
                api2 == [api1 EXCEPT !.dst_file = ListPath]
                isdir == stat(local_file_path) = CLI_VALID_DIR
                slash == LastSlash(local_file_path, Len(local_file_path))
                list == IF isdir THEN <<>>
                        ELSE <<local_file_path>> \o
                             [i \in 1..(argc - command_index - 2) |-> args[i]]
                api3 == IF isdir THEN api2
                        ELSE [api2 EXCEPT !.file_path =
                                 SubSeq(local_file_path, 1, slash - 1)]
                api4 == [api3 EXCEPT !.bucket_name = token(1)]
                go   == IF cp_batch_tokens_ok(t.n)
                        THEN IF token(2) = NULL \/ token(2) = <<".">>
                             THEN Out("uv_run", "storj_upload_files", "", api4, t.n, list)
                             ELSE End("storj://<bucket-name>/.", api4, t.n, list)
                        ELSE End("Valid dst filename missing", api3, t.n, list)
            IN  IF a.env = "no TMPDIR"
                THEN {End("Upload list file generation error", api1, -1, <<>>)}
                ELSE IF ~isdir /\ slash = 0
                THEN {Fault(api2, <<>>)}   \* memcpy of strrchr() - path, strrchr() NULL
                ELSE IF ~isdir /\ a.env = "list unwritable"
                THEN {End("Invalid upload src path entered", api2, -1, <<>>)}
                ELSE IF TokenOverflow(t) THEN {go, Fault(api3, list)} ELSE {go}
    IN  IF upload /\ a.shape # "cp-r" /\ stat(src_path) = CLI_VALID_DIR
        THEN {End("Invalid command entry", api0, -1, <<>>)}
        ELSE IF ~upload /\ ~download
        THEN {End("Invalid Command Entry", api0, -1, <<>>)}
        ELSE IF argc = 5 /\ stat(local_file_path) = CLI_VALID_REGULAR_FILE
        THEN Single
        ELSE Batch

InitCp ==
    /\ InitQueue
    /\ fs.dwnld_list = NoFile
    /\ argv_in \in CpArgvs
    /\ tok_out = NoTok
    /\ cp_out = NoCp
    /\ tree = NoTree
    /\ out_fd = NoOut
    /\ req = NoReq

MainCp ==
    /\ argv_in.shape \in CpShapes
    /\ ~cp_out.done
    /\ \E o \in main_cp(argv_in) : cp_out' = o
    /\ UNCHANGED <<queueVars, argv_in, tok_out, dirVars, req>>

SpecCp == InitCp /\ [][MainCp]_vars

\* ------------------------------ main: upload-file, upload-files, download-files
\* storj <command> [<bucket-name> [<path>]]: argv ends where the arguments end
FilesCommands == {"upload-file", "upload-files", "download-files"}
FilesBuckets == {<<"d">>, <<"m">>, <<"d", "m">>}
FilesPaths == {<<"/", "a">>, <<"a">>, <<"/">>}
FilesArgvs ==
    {[shape |-> c, bucket |-> b, path |-> p] :
        c \in FilesCommands, b \in FilesBuckets, p \in FilesPaths \cup {NULL}}
    \cup {[shape |-> c, bucket |-> NULL, path |-> NULL] : c \in FilesCommands}

\* the values a pointer that was never written can hold
IndeterminatePtr == {NULL, Indeterminate}

\* argv[command_index + 2]: past the terminating null pointer of argv when
\* the bucket name is missing
ArgvPath(a) == IF a.bucket = NULL THEN IndeterminatePtr ELSE {a.path}

main_files(a) ==
    LET Out(end, status, call, msg, api) ==
            [done |-> TRUE, end |-> end, status |-> status, call |-> call,
             msg |-> msg, cmd_type |-> "NONE", api |-> api, n |-> -1,
             list |-> <<>>]
        Run(api, call) ==
            IF api.bucket_name = NULL \/ api.file_name = NULL
            THEN Out("end_program", 1, "none", "Missing arguments", api)
            ELSE Out("uv_run", 0, call, "", api)
    IN  IF a.shape = "upload-file"
        THEN {Run([bucket_name |-> a.bucket, file_name |-> p,
                   file_path |-> fp, dst_file |-> NULL], "storj_upload_file") :
                 p \in ArgvPath(a), fp \in IndeterminatePtr}
        ELSE IF a.shape = "upload-files"
        THEN {Run([bucket_name |-> a.bucket, file_name |-> fn,
                   file_path |-> p, dst_file |-> NULL], "storj_upload_files") :
                 p \in ArgvPath(a), fn \in IndeterminatePtr}
        ELSE {Run([bucket_name |-> a.bucket, file_name |-> fn,
                   file_path |-> p, dst_file |-> df], "storj_download_files") :
                 p \in ArgvPath(a), fn \in IndeterminatePtr,
                 df \in IndeterminatePtr}

InitFiles ==
    /\ InitQueue
    /\ fs.dwnld_list = NoFile
    /\ argv_in \in FilesArgvs
    /\ tok_out = NoTok
    /\ cp_out = NoCp
    /\ tree = NoTree
    /\ out_fd = NoOut
    /\ req = NoReq

MainFiles ==
    /\ argv_in.shape \in FilesCommands
    /\ ~cp_out.done
    /\ \E o \in main_files(argv_in) : cp_out' = o
    /\ UNCHANGED <<queueVars, argv_in, tok_out, dirVars, req>>

SpecFiles == InitFiles /\ [][MainFiles]_vars

\* ------------------------------------------- file_exists on a directory
\* what lstat() finds at a directory entry
EntryKinds == {"REG", "FIFO", "DIR"}

\* the directories with n entries below them in all, each a sequence of
\* entries in readdir order; a DIR entry carries its own entries in sub
RECURSIVE DirsOfSize(_), EntriesOfSize(_)
EntriesOfSize(k) ==
    (IF k = 1 THEN {[kind |-> x, sub |-> <<>>] : x \in EntryKinds \ {"DIR"}} ELSE {})
    \cup {[kind |-> "DIR", sub |-> d] : d \in DirsOfSize(k - 1)}
DirsOfSize(n) ==
    IF n = 0 THEN {<<>>}
    ELSE UNION {{<<e>> \o rest : e \in EntriesOfSize(k), rest \in DirsOfSize(n - k)} :
                   k \in 1..n}

RootDir == <<"/", "r">>
EntryName(i) == [k \in 1..i |-> "n"]
Dot == [name |-> <<".">>, kind |-> "DIR", sub |-> <<>>]
DotDot == [name |-> <<".", ".">>, kind |-> "DIR", sub |-> <<>>]

\* readdir: the entries "." and "..", then the directory's own
readdir(entries) ==
    <<Dot, DotDot>> \o
    [i \in 1..Len(entries) |->
        [name |-> EntryName(i), kind |-> entries[i].kind, sub |-> entries[i].sub]]

\* realpath of an entry of the directory whose absolute path is dir
realpath(dir, name) == dir \o <<"/">> \o name

\* printdir(dir, depth, fd): the lines written for the entries from the i-th on
RECURSIVE printdir(_, _, _)
printdir(dir, entries, i) ==
    LET dp == readdir(entries)
    IN  IF i > Len(dp) THEN <<>>
        ELSE LET entry == dp[i]
                 here == IF entry.kind = "DIR"
                         THEN IF entry.name = <<".">> \/ entry.name = <<".", ".">>
                              THEN <<>>
                              ELSE printdir(realpath(dir, entry.name), entry.sub, 1)
                         ELSE <<realpath(dir, entry.name)>>
             IN  here \o printdir(dir, entries, i + 1)

InitDir ==
    /\ InitQueue
    /\ fs.dwnld_list = NoFile
    /\ argv_in = NoArgv
    /\ tok_out = NoTok
    /\ cp_out = NoCp
    /\ tree \in UNION {DirsOfSize(n) : n \in 0..MaxEntries}
    /\ out_fd = NoOut
    /\ req = NoReq

\* file_exists(RootDir) with RootDir a directory and output.txt writable:
\* printdir(file_path, 0, out_fd), then fclose
FileExistsDir ==
    /\ ~out_fd.done
    /\ argv_in = NoArgv
    /\ pc = "start"
    /\ out_fd' = [done |-> TRUE, lines |-> printdir(RootDir, tree, 1)]
    /\ UNCHANGED <<queueVars, cpVars, tree, req>>

SpecDir == InitDir /\ [][FileExistsDir]_vars

\* ------------------------------------------------- the progress callback
\* progress in percent
ProgressValues == {0, 50, 100}

file_progress_advancing(w, progress, downloaded_bytes) ==
    IF progress = 0 /\ downloaded_bytes = 0
    THEN Say(w, "Preparing File")
    ELSE [Say(w, "progress bar") EXCEPT !.cs.curr_up_file = @ + 1]

file_progress(w, progress, downloaded_bytes) ==
    IF progress = 0 /\ downloaded_bytes = 0
    THEN Say(w, "Preparing File")
    ELSE Say(w, "progress bar")

\* the state main leaves before the command runs, no list file around
World0 ==
    [pc |-> "start", exit_status |-> -1,
     cs |-> [bucket_name |-> NULL, bucket_id |-> NULL, file_name |-> NULL,
             file_path |-> NULL, file_id |-> NULL, total_files |-> 0,
             curr_up_file |-> 0, curr_cmd_req |-> "NULL",
             next_cmd_req |-> "NULL"],
     pending |-> {}, get_buckets_calls |-> 0, nHandles |-> 0, live |-> {},
     fdOpen |-> {}, sigs |-> {},
     fs |-> [dwnld_list |-> NoFile, upload_list |-> NoFile],
     listOpen |-> 0, execLog |-> <<>>, dispatched |-> 0,
     batch |-> [active |-> FALSE, kind |-> "none", items |-> <<>>],
     lastDl |-> NoDl, stdout |-> {}]

\* the entry point accepted the command and main entered the event loop
Started(r) == IF r.ret = 0 THEN {[r.w EXCEPT !.pc = "loop"]} ELSE {}

\* the states in which a first transfer is in flight: an upload of a file
\* or of a directory after the bucket listing, a wildcard download after
\* the file listing
UploadsInFlight(kind) ==
    UNION {get_bucket_id_callback(w, 200, buckets) :
              w \in UNION {Started(cli_upload_file(World0, kind, LocalFile, uri, n,
                                                   TRUE, TRUE)) :
                              uri \in UploadUris, n \in 1..MaxFiles},
              buckets \in BucketListings}
DownloadsInFlight ==
    UNION {list_files_callback(w, 200, files, TRUE) :
              w \in UNION {get_bucket_id_callback(v, 200, buckets) :
                              v \in Started(cli_download_file(
                                                World0, "DIR", <<"x", "/">>,
                                                Uri(<<"d", "/", "*">>))),
                              buckets \in BucketListings},
              files \in FileListings}
InFlight(kind) ==
    {w \in UploadsInFlight(kind) \cup
            (IF kind = "DIR" THEN DownloadsInFlight ELSE {}) :
        w.pc = "loop" /\ w.live # {}}

InitProgress ==
    /\ path_kind \in {"REG", "DIR"}
    /\ \E w \in InFlight(path_kind) :
          /\ pc = w.pc
          /\ exit_status = w.exit_status
          /\ cli_state = w.cs
          /\ pending = w.pending
          /\ get_buckets_calls = w.get_buckets_calls
          /\ nHandles = w.nHandles
          /\ live = w.live
          /\ fdOpen = w.fdOpen
          /\ sigs = w.sigs
          /\ fs = w.fs
          /\ listOpen = w.listOpen
          /\ execLog = w.execLog
          /\ dispatched = w.dispatched
          /\ batch = w.batch
          /\ lastDl = w.lastDl
          /\ stdout = w.stdout
          /\ firstMatch = w.cs.bucket_id
    /\ entry_ret = 0
    /\ canceled = {}
    /\ lastStatus = -1
    /\ sigintCount = 0
    /\ lastSigint = [cancelled |-> {}, liveAt |-> {}]
    /\ intrItem = 0
    /\ dwnld_list0 = FALSE
    /\ argv_in = NoArgv
    /\ tok_out = NoTok
    /\ cp_out = NoCp
    /\ tree = NoTree
    /\ out_fd = NoOut
    /\ req = NoReq

\* the Bridge calls file_progress while a transfer is in flight
FileProgress ==
    /\ pc = "loop"
    /\ live # {}
    /\ \E progress \in ProgressValues, downloaded_bytes \in {0, 1} :
          Apply(file_progress(World, progress, downloaded_bytes))
    /\ UNCHANGED <<entry_ret, path_kind, canceled, lastStatus, sigintCount,
                   lastSigint, intrItem, firstMatch, dwnld_list0, cpVars,
                   dirVars, req>>

SpecProgress == InitProgress /\ [][FileProgress]_vars

\* ------------------------------------------- the file listing callback alone
\* the states in which a download waits for the file listing: the entry
\* point accepted the command and the bucket listing held the bucket; d is
\* the dwnld_list.txt found in the working directory
ListingDests == {<<"x">>, <<"x", "/">>}
AwaitingListing(kind, d) ==
    {w \in UNION {get_bucket_id_callback(v, 200, buckets) :
                     v \in UNION {Started(cli_download_file(
                                             [World0 EXCEPT !.fs.dwnld_list = d],
                                             kind, path, uri)) :
                                     path \in ListingDests, uri \in DownloadUris},
                     buckets \in BucketListings} :
        "list_files" \in w.pending}

\* list_files_request_t as the Bridge hands it to list_files_callback;
\* open_ok: whether fopen("dwnld_list.txt", "w") would succeed
ListRequests ==
    [done : {FALSE}, status_code : StatusCodes, files : FileListings,
     open_ok : BOOLEAN]

InitList ==
    /\ path_kind \in PathKinds
    /\ \E d \in {NoFile, StaleDwnldList} :
          /\ dwnld_list0 = d.exists
          /\ \E w \in AwaitingListing(path_kind, d) :
                /\ pc = w.pc
                /\ exit_status = w.exit_status
                /\ cli_state = w.cs
                /\ pending = w.pending
                /\ get_buckets_calls = w.get_buckets_calls
                /\ nHandles = w.nHandles
                /\ live = w.live
                /\ fdOpen = w.fdOpen
                /\ sigs = w.sigs
                /\ fs = w.fs
                /\ listOpen = w.listOpen
                /\ execLog = w.execLog
                /\ dispatched = w.dispatched
                /\ batch = w.batch
                /\ lastDl = w.lastDl
                /\ stdout = w.stdout
                /\ firstMatch = w.cs.bucket_id
    /\ req \in ListRequests
    /\ entry_ret = 0
    /\ canceled = {}
    /\ lastStatus = -1
    /\ sigintCount = 0
    /\ lastSigint = [cancelled |-> {}, liveAt |-> {}]
    /\ intrItem = 0
    /\ argv_in = NoArgv
    /\ tok_out = NoTok
    /\ cp_out = NoCp
    /\ tree = NoTree
    /\ out_fd = NoOut

\* the Bridge answers the file listing: list_files_callback runs on req
ListFilesAnswer ==
    /\ pc = "loop"
    /\ "list_files" \in pending
    /\ ~req.done
    /\ \E w \in list_files_callback(World, req.status_code, req.files, req.open_ok) :
          Apply(w)
    /\ req' = [req EXCEPT !.done = TRUE]
    /\ UNCHANGED <<entry_ret, path_kind, canceled, lastStatus, sigintCount,
                   lastSigint, intrItem, firstMatch, dwnld_list0, cpVars,
                   dirVars>>

SpecList == InitList /\ [][ListFilesAnswer]_vars

\* ------------------------------------------------------------------ claims
Cursor == cli_state.curr_up_file
Total  == cli_state.total_files

\* C1: at most one transfer handle (dispatched, completion callback not yet
\* fired) is live at any time, and it is the one created last: every earlier
\* handle's completion callback fired before the next transfer was dispatched.
C1_AtMostOneLiveHandle ==
    /\ Cardinality(live) <= 1
    /\ live \subseteq {nHandles}

C1_Witness == nHandles = 2 /\ live = {2} /\ batch.active

C2_Keys(calls) ==
    [i \in 1..Len(calls) |->
        IF batch.kind = "upload" THEN calls[i].path ELSE calls[i].id]

\* C2: for every batch of N >= 1 items (bucket resolved, N recorded as the
\* total, no interrupt delivered), once the process has terminated the
\* executor was invoked exactly N times, the i-th invocation for the i-th
\* item of the list.
C2_BatchExactlyN ==
    (/\ pc = "exited"
     /\ batch.active
     /\ Len(batch.items) >= 1
     /\ cli_state.bucket_id # NULL
     /\ Total = Len(batch.items)
     /\ sigintCount = 0)
    => C2_Keys(execLog) = C2_Keys(batch.items)

\* C3: once an interrupt has been delivered while item k was being
\* transferred, no item after k is handed to the executor.
C3_NoDispatchAfterInterrupt ==
    intrItem > 0 => Len(execLog) <= intrItem

\* C4: an interrupt calls cancel at most once, and only on a handle that is
\* live when the interrupt is delivered.
C4_CancelOnlyLiveHandle ==
    /\ lastSigint.cancelled \subseteq lastSigint.liveAt
    /\ Cardinality(lastSigint.cancelled) <= 1

\* C5: in a batch with items remaining, a completion callback that reports a
\* non-zero status still hands the next item of the list to the executor in
\* the same step, and the process keeps running.
C5_CompletionStep == \E h \in live : h \notin live'
C5_NextItemInvoked ==
    /\ Len(execLog') = Len(execLog) + 1
    /\ LET call == execLog'[Len(execLog')]
           item == batch.items[Cursor]
       IN  IF batch.kind = "upload" THEN call.path = item.path
                                    ELSE call.id = item.id
    /\ Cursor' = Cursor + 1
    /\ pc' = "loop"
C5_FailedItemStillAdvances ==
    [][(/\ C5_CompletionStep
        /\ lastStatus' # 0
        /\ batch.active
        /\ Total > 0
        /\ Cursor <= Total)
       => C5_NextItemInvoked]_vars

C5_Witness ==
    /\ lastStatus = 1
    /\ batch.active
    /\ Len(execLog) = 2
    /\ live = {2}

C7_ListDeletedAtDone ==
    (/\ pc = "exited"
     /\ exit_status = 0
     /\ batch.active
     /\ stdout \cap {"done uploading files", "done downloading files"} # {})
    => IF batch.kind = "upload" THEN ~fs.upload_list.exists
                                ELSE ~fs.dwnld_list.exists

\* C8: the items read back from the download list, one per advance, are the
\* items that were written: the i-th executor call gets the id and the full
\* name of the i-th entry, and after the last item the next read ends the list.
C8_ListRoundTrip ==
    (/\ batch.active
     /\ batch.kind = "download"
     /\ Total = Len(batch.items))
    => /\ Len(execLog) <= Len(batch.items)
       /\ \A i \in 1..Len(execLog) :
             /\ execLog[i].id = batch.items[i].id
             /\ execLog[i].name = batch.items[i].name

\* C9: a single-target download whose name matched no entry of the listing
\* never calls the executor and exits with status 1, FileNotFound reported.
C9_FileNotFoundNoExecutor ==
    (/\ cli_state.curr_cmd_req = "download-file"
     /\ cli_state.file_name # <<"*">>
     /\ cli_state.next_cmd_req = "download-file-1"
     /\ cli_state.file_id = NULL)
    => /\ execLog = <<>>
       /\ pc = "exited" => exit_status = 1

\* C10: when the destination exists, download_file unlinks it, opens it or
\* starts the Bridge transfer only if the answer that ended the prompt is y;
\* when that answer is n, it does none of the three.
C10_OverwriteOnlyOnYes ==
    (lastDl.called /\ lastDl.existed)
    => LET answer == lastDl.inputs[Len(lastDl.inputs)]
           acted  == lastDl.unlinked \/ lastDl.opened \/ lastDl.dispatched
       IN  /\ acted => answer = "y"
           /\ answer = "n" => ~acted

C10_Witness ==
    /\ lastDl.called
    /\ lastDl.existed
    /\ lastDl.inputs = <<"x", "n">>
    /\ ~lastDl.dispatched
    /\ live = {}

\* C11: when the user declines to overwrite an existing download destination,
\* no transfer is dispatched for it and the process exit status is 1.
C11_DeclinedOverwriteExitsOne ==
    (/\ pc = "exited"
     /\ ~batch.active
     /\ cli_state.file_id # NULL
     /\ lastDl.called
     /\ lastDl.existed
     /\ overwrite_declined(lastDl.inputs))
    => /\ ~lastDl.dispatched
       /\ nHandles = 0
       /\ exit_status = 1

\* C12: when the listing returned for the bucket resolution holds no bucket
\* of the requested name, nothing is dispatched afterwards: no listFiles
\* request, no executor call, no transfer, no second listBuckets call, and no
\* bucket id is recorded.
C12_NoMatchNoDispatch ==
    (/\ get_buckets_calls >= 1
     /\ "get_buckets" \notin pending
     /\ firstMatch = NULL)
    => /\ "list_files" \notin pending
       /\ execLog = <<>>
       /\ nHandles = 0
       /\ get_buckets_calls = 1
       /\ cli_state.bucket_id = NULL

C12_Witness ==
    /\ get_buckets_calls = 1
    /\ "get_buckets" \notin pending
    /\ firstMatch = NULL
    /\ "Invalid bucket name" \in stdout
    /\ cli_state.curr_cmd_req = "download-file"
    /\ pc = "loop"

\* C13: an invocation that ends on a resolution error (here: cp given an
\* argument that is not a valid storj:// URI) exits with a non-zero status.
C13_ResolutionErrorExitsNonZero ==
    (/\ cp_out.done
     /\ cp_out.end = "end_program"
     /\ cp_out.msg \in {"Invalid Command Entry", "Valid dst filename missing",
                        "storj://<bucket-name>/."})
    => cp_out.status # 0

\* C14: a single-item upload or download whose completion callback reported
\* a non-zero status ends the process with exit status 1, never 0.
C14_FailedSingleItemExitsOne ==
    (/\ pc = "exited"
     /\ ~batch.active
     /\ Total = 0
     /\ lastStatus > 0)
    => exit_status = 1

BeginsWithScheme(str) ==
    Len(str) >= Len(Scheme) /\ SubSeq(str, 1, Len(Scheme)) = Scheme

\* C15: for every argument that does not begin with storj://, also when the
\* scheme occurs later in it, the tokenizer's result is not a token count a
\* caller accepts as valid: it is neither 2 nor 3.
C15_NoPrefixNeverTwoOrThree ==
    (tok_out.done /\ ~BeginsWithScheme(argv_in.uri))
    => tok_out.n \notin {2, 3}

\* the argument read as storj://bucket/name followed by slashes only
C16_Rest == SubSeq(argv_in.uri, Len(Scheme) + 1, Len(argv_in.uri))
C16_Cut == FirstDelim(C16_Rest, "/")
C16_Bucket == SubSeq(C16_Rest, 1, C16_Cut - 1)
C16_After == SubSeq(C16_Rest, C16_Cut + 1, Len(C16_Rest))
C16_NameLen ==
    IF \E k \in 1..Len(C16_After) : C16_After[k] # "/"
    THEN CHOOSE k \in 1..Len(C16_After) :
            /\ C16_After[k] # "/"
            /\ \A j \in (k + 1)..Len(C16_After) : C16_After[j] = "/"
    ELSE 0
C16_Name == SubSeq(C16_After, 1, C16_NameLen)
C16_Valid ==
    /\ BeginsWithScheme(argv_in.uri)
    /\ C16_Bucket # <<>>
    /\ C16_Name # <<>>
    /\ \A k \in 1..Len(C16_Name) : C16_Name[k] # "/"

\* C16: for every argument storj://bucket/name, with any number of trailing
\* slashes, the tokenizer returns 3, token[1] is the bucket and token[2] the
\* name.
C16_ValidUriThreeTokens ==
    (tok_out.done /\ C16_Valid)
    => /\ tok_out.n = 3
       /\ TokenAt(tok_out.tok, 1) = C16_Bucket
       /\ TokenAt(tok_out.tok, 2) = C16_Name

C16_Witness ==
    /\ tok_out.done
    /\ argv_in.uri = Uri(<<"d", "/", "a", "/">>)
    /\ tok_out.n = 3
    /\ TokenAt(tok_out.tok, 2) = <<"a">>

\* the number of '/'-separated non-empty fields of the cp URI argument
C17_Fields == Len(strtok_all(argv_in.uri, "/"))

\* C17: cp starts no upload or download for a storj:// destination whose
\* token count is neither 2 nor 3, on the single-file and on the directory
\* branch.
C17_BadTokenCountRejected ==
    (/\ cp_out.done
     /\ argv_in.uri_side = "dst"
     /\ BeginsWithScheme(argv_in.uri)
     /\ C17_Fields \notin {2, 3})
    => cp_out.call = "none"

\* the part of a path after its last '/'
C18_Basename(path) ==
    IF \E k \in 1..Len(path) : path[k] = "/"
    THEN LET k == CHOOSE i \in 1..Len(path) :
                     path[i] = "/" /\ \A j \in (i + 1)..Len(path) : path[j] # "/"
         IN  SubSeq(path, k + 1, Len(path))
    ELSE path

\* C18: a single-file cp upload whose URI has two tokens, or three with the
\* file name ".", is uploaded under the basename of the local source path.
C18_DefaultsToSourceBasename ==
    (/\ cp_out.done
     /\ cp_out.call = "storj_upload_file"
     /\ argv_in.uri_side = "dst"
     /\ \/ cp_out.n = 2
        \/ cp_out.n = 3 /\ C16_Name = <<".">>)
    => cp_out.api.dst_file = C18_Basename(argv_in.local)

C18_Witness ==
    /\ cp_out.done
    /\ cp_out.call = "storj_upload_file"
    /\ argv_in.uri = Uri(<<"d", "/", ".">>)
    /\ argv_in.local = <<"/", "a">>
    /\ cp_out.api.dst_file = <<"a">>
    /\ cp_out.api.bucket_name = <<"d">>

\* C19: when the listing holds a bucket of the requested name, the resolver
\* records the id of the first such bucket in the order received and, in the
\* same step, dispatches the stage of the command: list-files and
\* download-file request the file listing (and call no executor), upload-file
\* (a single file or a directory) hands the first upload to the executor.
C19_ResolverStep == "get_buckets" \in pending /\ "get_buckets" \notin pending'
C19_MatchSetsIdAndStage ==
    [][(C19_ResolverStep /\ firstMatch' # NULL)
       => /\ cli_state'.bucket_id = firstMatch'
          /\ cli_state.curr_cmd_req \in {"list-files", "download-file"}
                => /\ "list_files" \in pending'
                   /\ execLog' = execLog
          /\ cli_state.curr_cmd_req = "upload-file"
                => /\ "list_files" \notin pending'
                   /\ Len(execLog') = Len(execLog) + 1]_vars

C19_Witness ==
    /\ firstMatch = BucketId(2)
    /\ cli_state.bucket_id = BucketId(2)
    /\ cli_state.curr_cmd_req = "download-file"
    /\ "list_files" \in pending

\* C20: listBuckets is called at most once per invocation, and once a bucket
\* id is recorded no later step calls listBuckets or changes the bucket id.
C20_ResolvedOnce ==
    [][/\ get_buckets_calls' <= 1
       /\ cli_state.bucket_id # NULL
             => /\ cli_state'.bucket_id = cli_state.bucket_id
                /\ get_buckets_calls' = get_buckets_calls]_vars

C20_Witness ==
    /\ batch.active
    /\ Len(execLog) >= 2
    /\ get_buckets_calls = 1
    /\ cli_state.bucket_id # NULL
    /\ lastStatus = 0

\* C21: once a Bridge listing callback (the bucket listing or the file
\* listing) has reported a failure status, nothing further is dispatched
\* whatever the listing holds: no file listing is requested, no download list
\* is written and no transfer is handed to the executor.
C21_FailureReported ==
    stdout \cap {"Request failed", "Invalid user credentials", "listing refused"} # {}
C21_FailedListingStopsCommand ==
    C21_FailureReported
    => /\ "list_files" \notin pending
       /\ execLog = <<>>
       /\ nHandles = 0
       /\ batch.kind # "download"

\* C22: after the enumeration of a wildcard download the download list holds
\* one id:name line for every entry of the remote listing, in listing order,
\* and total_files is the number of entries of the listing.
C22_ListLines ==
    [i \in 1..Len(batch.items) |->
        batch.items[i].id \o <<":">> \o batch.items[i].name]
C22_ListHoldsEveryEntry ==
    batch.kind = "download"
    => /\ fs.dwnld_list.exists
       /\ fs.dwnld_list.lines = C22_ListLines
       /\ Total = Len(batch.items)

\* C23: when a wildcard download enumerates while a dwnld_list.txt of an
\* earlier invocation exists, the file is overwritten: after enumeration its
\* content is exactly the lines of the current listing, none of the earlier
\* lines remaining.
C23_PriorListOverwritten ==
    (dwnld_list0 /\ batch.kind = "download")
    => /\ fs.dwnld_list.exists
       /\ fs.dwnld_list.lines = C22_ListLines

\* C24: a cp whose source argument carries the storj:// scheme and whose
\* destination is a local path is a download: it never starts an upload.
C24_SourceSchemeNeverUploads ==
    (/\ cp_out.done
     /\ argv_in.uri_side = "src"
     /\ BeginsWithScheme(argv_in.uri))
    => cp_out.call \notin {"storj_upload_file", "storj_upload_files"}

\* C25: in single-item mode (no work list, total_files = 0), once the bucket
\* is resolved and, for a download, the file is found, the executor has been
\* invoked exactly once; when that transfer's completion callback has fired
\* the process has exited with status 0, nothing further having been
\* dispatched.
C25_SingleItem ==
    /\ ~batch.active
    /\ Total = 0
    /\ cli_state.curr_cmd_req \in {"upload-file", "download-file"}
    /\ cli_state.bucket_id # NULL
    /\ cli_state.curr_cmd_req = "download-file" => cli_state.file_id # NULL
C25_SingleItemOnceThenExit ==
    C25_SingleItem
    => /\ Len(execLog) = 1
       /\ dispatched <= 1
       /\ lastStatus # -1 => (pc = "exited" /\ exit_status = 0)

\* C26: a wildcard download whose local destination is not an existing
\* directory is rejected by the entry point before any Bridge operation: the
\* bucket listing is never requested and the entry point returns a failure
\* status.
C26_WildcardNeedsDirectory ==
    (/\ cli_state.curr_cmd_req = "download-file"
     /\ cli_state.file_name = <<"*">>
     /\ path_kind # "DIR")
    => /\ get_buckets_calls = 0
       /\ pending = {}
       /\ nHandles = 0
       /\ pc = "rejected"
       /\ entry_ret # 0

C26_Witness ==
    /\ cli_state.curr_cmd_req = "download-file"
    /\ cli_state.file_name = <<"*">>
    /\ cli_state.file_path = <<"x">>
    /\ path_kind = "REG"
    /\ pc = "rejected"
    /\ entry_ret = -1
    /\ "target is not a directory" \in stdout

\* the regular files reachable under a directory, by absolute path
RECURSIVE C27_RegularFiles(_, _)
C27_RegularFiles(dir, entries) ==
    UNION {IF entries[i].kind = "REG" THEN {realpath(dir, EntryName(i))}
           ELSE IF entries[i].kind = "DIR"
           THEN C27_RegularFiles(realpath(dir, EntryName(i)), entries[i].sub)
           ELSE {} : i \in 1..Len(entries)}

\* C27: for every directory tree the list written by the enumeration holds
\* exactly one line for each regular file reachable under the root and no
\* line for an entry that is not a regular file.
C27_OneLinePerRegularFile ==
    out_fd.done
    => /\ \A p \in C27_RegularFiles(RootDir, tree) :
             Cardinality({i \in 1..Len(out_fd.lines) : out_fd.lines[i] = p}) = 1
       /\ \A i \in 1..Len(out_fd.lines) :
             out_fd.lines[i] \in C27_RegularFiles(RootDir, tree)

C29_ProgressChangesNothing ==
    [][stdout' # stdout
       => UNCHANGED <<cli_state, pending, get_buckets_calls, nHandles, live,
                      fdOpen, sigs, fs, listOpen, execLog, dispatched, batch,
                      pc, exit_status>>]_vars

C29_Witness ==
    /\ {"Preparing File", "progress bar"} \subseteq stdout
    /\ batch.active
    /\ live = {1}
    /\ Cursor = 2
    /\ Len(execLog) = 1

\* C30: upload-files and download-files end with exit status 1 exactly when
\* the bucket name or the directory argument is missing; with both supplied
\* the command is handed to the batch upload / download stage.
C30_Missing == argv_in.bucket = NULL \/ argv_in.path = NULL
C30_RejectedOnlyWhenArgMissing ==
    (cp_out.done /\ argv_in.shape \in {"upload-files", "download-files"})
    => /\ (cp_out.end = "end_program" /\ cp_out.status = 1) <=> C30_Missing
       /\ ~C30_Missing
             => cp_out.call = IF argv_in.shape = "upload-files"
                              THEN "storj_upload_files"
                              ELSE "storj_download_files"

\* C31: in a batch download of N items with no interrupt delivered, when
\* download_file could not start an item (overwrite declined, or the
\* destination could not be opened) the queue manager still advances: the
\* process never ends before every item of the list was handed to the
\* executor.
C31_UnstartedItemStillAdvances ==
    (/\ pc = "exited"
     /\ batch.kind = "download"
     /\ Len(batch.items) >= 1
     /\ Total = Len(batch.items)
     /\ sigintCount = 0
     /\ lastDl.called
     /\ ~lastDl.dispatched)
    => Len(execLog) = Total

\* C32: a single-target download whose file name is found in the listing
\* hands exactly one download to the executor, that of the matched file id,
\* whether or not a dwnld_list.txt of an earlier invocation exists.
C32_SingleTarget ==
    /\ cli_state.curr_cmd_req = "download-file"
    /\ cli_state.file_name \notin {NULL, <<"*">>}
    /\ cli_state.bucket_id # NULL
    /\ cli_state.file_id # NULL
C32_FoundTargetDownloadedOnce ==
    C32_SingleTarget
    => /\ Len(execLog) = 1
       /\ execLog[1].id = cli_state.file_id

\* C33: the upload of a directory that holds no file (an upload list of zero
\* lines, total_files = 0 and curr_up_file = 0) hands nothing to the
\* executor.
C33_EmptyDirectoryNoExecutor ==
    (/\ batch.kind = "upload"
     /\ Len(batch.items) = 0
     /\ cli_state.curr_cmd_req = "upload-file"
     /\ Total = 0)
    => execLog = <<>>

\* C34: a wildcard download from a bucket whose file listing is empty hands
\* nothing to the executor and ends the process with exit status 0.
C34_EmptyListingExitsZero ==
    (/\ cli_state.curr_cmd_req = "download-file"
     /\ batch.kind = "download"
     /\ Len(batch.items) = 0)
    => /\ execLog = <<>>
       /\ pc = "exited"
       /\ exit_status = 0

\* C35: an upload is reported as successful only when its completion status
\* is 0: after the one completion callback of a single-file upload with a
\* non-zero status the failure was reported and success was not.
C35_SuccessOnlyOnStatusZero ==
    (/\ cli_state.curr_cmd_req = "upload-file"
     /\ ~batch.active
     /\ lastStatus \notin {0, -1})
    => /\ "Upload failure" \in stdout
       /\ "Upload Success" \notin stdout

\* C36: the list-files command never hands anything to the executor, and once
\* its file listing callback has run no dwnld_list.txt exists in the working
\* directory, also when one was there from an earlier invocation.
C36_ListingDone ==
    /\ cli_state.curr_cmd_req = "list-files"
    /\ cli_state.bucket_id # NULL
    /\ "list_files" \notin pending
C36_ListFilesLeavesNoList ==
    cli_state.curr_cmd_req = "list-files"
    => /\ execLog = <<>>
       /\ C36_ListingDone => ~fs.dwnld_list.exists

\* the entries of the listing answered whose name is the target's
C37_Matches ==
    {i \in 1..Len(req.files) : req.files[i].filename = cli_state.file_name}
C37_Last == CHOOSE i \in C37_Matches : \A j \in C37_Matches : j <= i

\* C37: for a single-target download the file id handed to the executor is
\* that of the last entry of the listing, in listing order, whose name equals
\* the target (the only one when exactly one matches).
C37_LastMatchDownloaded ==
    (/\ req.done
     /\ cli_state.file_name \notin {NULL, <<"*">>}
     /\ C37_Matches # {}
     /\ execLog # <<>>)
    => /\ Len(execLog) = 1
       /\ execLog[1].id = req.files[C37_Last].id
       /\ cli_state.file_id = req.files[C37_Last].id

C37_Witness ==
    /\ req.done
    /\ cli_state.file_name = <<"a">>
    /\ Len(req.files) = 3
    /\ C37_Matches = {1, 3}
    /\ Len(execLog) = 1
    /\ execLog[1].id = FileId(3)
    /\ dispatched = 1

\* C38: every destination path handed to the executor during a wildcard
\* download is the destination directory string immediately followed by the
\* full remote file name of that item, with nothing in between.
C38_DestinationIsDirThenName ==
    (/\ batch.active
     /\ batch.kind = "download"
     /\ Total = Len(batch.items))
    => \A i \in 1..Len(execLog) :
          /\ i <= Len(batch.items)
          /\ execLog[i].path = cli_state.file_path \o batch.items[i].name

\* C39: at most one read handle on the transfer list is open at any time:
\* the handle an advance opened is closed before the next advance opens the
\* list again.
C39_OneListHandle == listOpen <= 1

====
